---- MODULE Spec2Model ----
(***************************************************************************)
(* Model of gdrive/drive_helpers.py: check_public_link_permission and      *)
(* find_or_create_folder, the latter run by concurrent callers against one *)
(* Drive service.                                                          *)
(*                                                                         *)
(* Text whose characters matter (folder names, the query string) is a      *)
(* sequence of one-character strings; other text is a TLA+ string.         *)
(***************************************************************************)
EXTENDS Integers, Sequences, FiniteSets, TLC

(* ------------------------------ bounds --------------------------------- *)

\* invocations of find_or_create_folder in one behaviour
MaxCalls == 3

\* folders in the Drive before the first invocation
MaxInitial == 1

\* length of the folder names given to the query builder
MaxLen == 3

\* length of the permission lists given to check_public_link_permission
MaxPerms == 2

(* --------------------------- Python values ----------------------------- *)

None == "None"

\* truth value of an optional str: None and "" are false
Truthy(v) == v # None /\ v # ""

\* d.get(key, default)
Get(d, key, default) == IF key \in DOMAIN d THEN d[key] ELSE default

\* str.replace(old, new) for a one-character old: left to right, every occurrence
RECURSIVE Replace(_, _, _)
Replace(s, old, new) ==
    IF s = <<>> THEN <<>>
    ELSE (IF Head(s) = old THEN new ELSE <<Head(s)>>) \o Replace(Tail(s), old, new)

(* -------------------- check_public_link_permission --------------------- *)

\* variant: the role list without 'commenter'
PublicRoles_noCommenter == {"reader", "writer"}

\* the roles of a public link: ['reader', 'writer', 'commenter']
PublicRoles == {"reader", "writer", "commenter"}

\* the condition of the generator expression, for one permission p
IsPublicLink(p) ==
    Get(p, "type", None) = "anyone" /\ Get(p, "role", None) \in PublicRoles

\* any(... for p in permissions)
RECURSIVE check_public_link_permission(_)
check_public_link_permission(permissions) ==
    IF permissions = <<>> THEN FALSE
    ELSE IsPublicLink(Head(permissions))
           \/ check_public_link_permission(Tail(permissions))

(* ----------------- find_or_create_folder: pure parts ------------------- *)

FolderMimeType == "application/vnd.google-apps.folder"

PageSize == 10

QueryPrefix == <<"n", "a", "m", "e", " ", "=", " ", "'">>

QuerySuffix ==
    <<"'", " ", "a", "n", "d", " ", "m", "i", "m", "e", "T", "y", "p", "e", " ",
      "=", " ", "'", "a", "p", "p", "l", "i", "c", "a", "t", "i", "o", "n", "/",
      "v", "n", "d", ".", "g", "o", "o", "g", "l", "e", "-", "a", "p", "p", "s",
      ".", "f", "o", "l", "d", "e", "r", "'", " ", "a", "n", "d", " ", "t", "r",
      "a", "s", "h", "e", "d", " ", "=", " ", "f", "a", "l", "s", "e">>

\* variant: the name put into the query as it is
escaped_name_unescaped(folder_name) == folder_name

\* escaped_name = folder_name.replace("'", "\\'")
escaped_name(folder_name) == Replace(folder_name, "'", <<"\\", "'">>)

\* query = f"name = '{escaped_name}' and mimeType = '...' and trashed = false"
query(folder_name) == QueryPrefix \o escaped_name(folder_name) \o QuerySuffix

\* variant: the drive-specific parameters left out
search_params_unscoped(folder_name, drive_id, include_items_from_all_drives) ==
    [q |-> query(folder_name),
     pageSize |-> PageSize,
     fields |-> "files(id, name, parents)",
     supportsAllDrives |-> TRUE,
     includeItemsFromAllDrives |-> include_items_from_all_drives]

\* search_params, with the drive-specific parameters added if drive_id
search_params(folder_name, drive_id, include_items_from_all_drives) ==
    LET base == [q |-> query(folder_name),
                 pageSize |-> PageSize,
                 fields |-> "files(id, name, parents)",
                 supportsAllDrives |-> TRUE,
                 includeItemsFromAllDrives |-> include_items_from_all_drives]
    IN  IF Truthy(drive_id)
        THEN base @@ [corpora |-> "drive", driveId |-> drive_id]
        ELSE base

\* variant: the parent is always 'root'
parent_folder_root(drive_id) == "root"

\* parent_folder = 'root', or drive_id if drive_id
parent_folder(drive_id) == IF Truthy(drive_id) THEN drive_id ELSE "root"

\* variant: the escaped name used as the name of the new folder
folder_metadata_escaped(folder_name, drive_id) ==
    [name |-> escaped_name(folder_name),
     mimeType |-> FolderMimeType,
     parents |-> <<parent_folder(drive_id)>>]

\* folder_metadata = {'name': ..., 'mimeType': ..., 'parents': [parent_folder]}
folder_metadata(folder_name, drive_id) ==
    [name |-> folder_name,
     mimeType |-> FolderMimeType,
     parents |-> <<parent_folder(drive_id)>>]

\* the keyword arguments of files().create
create_params(folder_name, drive_id) ==
    [body |-> folder_metadata(folder_name, drive_id),
     fields |-> "id, name",
     supportsAllDrives |-> TRUE]

\* variant: the list result taken as empty whatever it holds
folders_found_never(folders) == FALSE

\* "if folders:" for the list results.get('files', [])
folders_found(folders) == folders # <<>>

\* variant: the last match instead of the first
first_match_id_last(folders) == folders[Len(folders)].id

\* variant: the parent of the first match instead of its id
first_match_id_parent(folders) == folders[1].parents[1]

\* folders[0]['id']
first_match_id(folders) == folders[1].id

\* variant: a key the create response does not have
new_folder_id_wrong_key(created_folder) == Get(created_folder, "Id", None)

\* created_folder.get('id')
new_folder_id(created_folder) == Get(created_folder, "id", None)

\* the failures an API call raises
ErrorKinds == {"network", "permission", "quota"}

\* variant: an except clause for the errors the service reports only
caught_http_only(e) == e \in {"permission", "quota"}

\* "except Exception": every failure of an API call is an Exception
caught(e) == e \in ErrorKinds

(* --------------------------- the Drive service ------------------------- *)
(* The collaborator behind drive_service: it keeps the folders, answers a  *)
(* list call with the folders whose name the query asks for, confined to   *)
(* the shared drive when driveId is given, and makes a folder on a create  *)
(* call.  Nothing but create calls changes it: no folder is deleted,       *)
(* trashed or renamed.  The folder names here have no backslash, so the    *)
(* only escape the service has to read in a query is \' for a quote.       *)

\* the folder names the callers ask for
FolderNames == {<<"a">>, <<"a", "'">>}

\* drive_id arguments: absent, empty, a shared drive
DriveIds == {None, "", "drvA"}

\* where a folder of the Drive can live
Parents == {"root", "drvA"}

\* the invocations that can be under way at once
Callers == {1, 2}

\* the id the service gives its n-th folder
FolderId(n) == "f" \o ToString(n)

\* sequences over S of length at most n
RECURSIVE SeqsUpTo(_, _)
SeqsUpTo(S, n) ==
    IF n = 0 THEN {<<>>}
    ELSE LET shorter == SeqsUpTo(S, n - 1)
         IN  shorter \cup {Append(s, x) : s \in {t \in shorter : Len(t) = n - 1}, x \in S}

\* a Drive holding the given <<name, parent>> folders, ids in order of creation
InitialFiles(spec) ==
    [i \in 1..Len(spec) |->
        [id |-> FolderId(i), name |-> spec[i][1],
         mimeType |-> FolderMimeType, parents |-> <<spec[i][2]>>]]

\* the service reads a string literal of the query: \' stands for '
RECURSIVE Unescape(_)
Unescape(s) ==
    IF s = <<>> THEN <<>>
    ELSE IF Len(s) >= 2 /\ s[1] = "\\" /\ s[2] = "'"
         THEN <<"'">> \o Unescape(SubSeq(s, 3, Len(s)))
         ELSE <<Head(s)>> \o Unescape(Tail(s))

\* the name a query "name = '<E>' and mimeType = ... and trashed = false" asks for
QueryName(q) == Unescape(SubSeq(q, Len(QueryPrefix) + 1, Len(q) - Len(QuerySuffix)))

\* does folder f answer the list call with these parameters
Matches(f, params) ==
    /\ f.name = QueryName(params.q)
    /\ f.mimeType = FolderMimeType
    /\ IF "driveId" \in DOMAIN params
       THEN f.parents = <<params.driveId>>
       ELSE f.parents = <<"root">> \/ params.includeItemsFromAllDrives

\* the folders that answer the list call, in order of creation
RECURSIVE MatchingFolders(_, _)
MatchingFolders(fs, params) ==
    IF fs = <<>> THEN <<>>
    ELSE (IF Matches(Head(fs), params) THEN <<Head(fs)>> ELSE <<>>)
           \o MatchingFolders(Tail(fs), params)

\* s with its k-th element moved to the front
MoveFirst(s, k) ==
    <<s[k]>> \o SubSeq(s, 1, k - 1) \o SubSeq(s, k + 1, Len(s))

\* the projection files(id, name, parents) of one page
Page(s, size) ==
    [i \in 1..(IF Len(s) < size THEN Len(s) ELSE size) |->
        [id |-> s[i].id, name |-> s[i].name, parents |-> s[i].parents]]

(* ------------------------------- state --------------------------------- *)

VARIABLES
    files,       \* the Drive: its folders, in order of creation
    files0,      \* the Drive before the first invocation
    pc,          \* per caller: where its invocation stands
    args,        \* per caller: the arguments of its invocation
    calls,       \* per caller: the API calls of its invocation, with their responses
    ret,         \* per caller: the value its invocation returned
    started,     \* number of invocations started
    target,      \* the folder name and drive_id every invocation asks for, if fixed
    overlapped,  \* per caller: did its invocation run while another one ran
    hist,        \* the finished invocations, in order of return
    fn,          \* the pure function last applied
    arg,         \* its argument
    out          \* its result

vars ==
    <<files, files0, pc, args, calls, ret, started, target, overlapped, hist,
      fn, arg, out>>

pureVars == <<fn, arg, out>>

histVars == <<target, overlapped, hist>>

Pending == [status |-> "pending"]

NoArgs == [folder_name |-> <<>>, drive_id |-> None, include_items_from_all_drives |-> TRUE]

NoTarget == [folder_name |-> <<>>, drive_id |-> None]

\* an invocation is under way: a call of it is in flight
Active(c) == pc[c] \in {"list", "create"}

\* an invocation has just ended and its frame is still there
Ended(c) == pc[c] \in {"returned", "raised"}

LastCall(c) == calls[c][Len(calls[c])]

Respond(c, resp) == [calls EXCEPT ![c][Len(calls[c])].resp = resp]

InitDrive ==
    /\ \E spec \in SeqsUpTo(FolderNames \X Parents, MaxInitial) :
          /\ files = InitialFiles(spec)
          /\ files0 = InitialFiles(spec)
    /\ pc = [c \in Callers |-> "idle"]
    /\ args = [c \in Callers |-> NoArgs]
    /\ calls = [c \in Callers |-> <<>>]
    /\ ret = [c \in Callers |-> None]
    /\ started = 0
    /\ overlapped = [c \in Callers |-> FALSE]
    /\ hist = <<>>

InitPure ==
    /\ fn = "none"
    /\ arg = <<>>
    /\ out = <<>>

Init ==
    /\ InitDrive
    /\ InitPure
    /\ target = NoTarget

(* ------------------------ find_or_create_folder ------------------------ *)

\* "return value": the invocation ends
Return(c, value) ==
    /\ pc' = [pc EXCEPT ![c] = "returned"]
    /\ ret' = [ret EXCEPT ![c] = value]

\* the except clause: an exception it catches becomes "return None",
\* any other leaves the function
Except(c, e) ==
    IF caught(e)
    THEN Return(c, None)
    ELSE /\ pc' = [pc EXCEPT ![c] = "raised"]
         /\ ret' = [ret EXCEPT ![c] = None]

\* the call up to its first await: the query, the search parameters, files().list.
\* A new invocation takes the first free caller.
Invoke(c, folder_name, drive_id, include_items_from_all_drives) ==
    /\ \A d \in Callers : ~Ended(d)
    /\ pc[c] = "idle"
    /\ \A d \in Callers : pc[d] = "idle" => ~(d < c)
    /\ started < MaxCalls
    /\ started' = started + 1
    /\ args' = [args EXCEPT ![c] =
                  [folder_name |-> folder_name, drive_id |-> drive_id,
                   include_items_from_all_drives |-> include_items_from_all_drives]]
    /\ calls' = [calls EXCEPT ![c] =
                  << [op |-> "list",
                      params |-> search_params(folder_name, drive_id,
                                               include_items_from_all_drives),
                      resp |-> Pending] >>]
    /\ pc' = [pc EXCEPT ![c] = "list"]
    /\ UNCHANGED <<files, files0, ret, pureVars>>

\* the answers the service can give to a list call: one page of the matching
\* folders, in an order of its choosing (any match may come first)
ListResponses(params) ==
    LET found == MatchingFolders(files, params)
    IN  IF found = <<>>
        THEN {[status |-> "ok", value |-> [files |-> <<>>]]}
        ELSE {[status |-> "ok",
               value |-> [files |-> Page(MoveFirst(found, k), params.pageSize)]] :
                 k \in 1..Len(found)}

\* after the first await: return the first match, or build the metadata and
\* call files().create; a failure of the list call goes to the except clause
AfterList(c, resp) ==
    IF resp.status = "error"
    THEN Except(c, resp.kind) /\ calls' = Respond(c, resp)
    ELSE LET folders == Get(resp.value, "files", <<>>)
         IN  IF folders_found(folders)
             THEN Return(c, first_match_id(folders)) /\ calls' = Respond(c, resp)
             ELSE /\ calls' = [calls EXCEPT ![c] =
                                 << [@[1] EXCEPT !.resp = resp],
                                    [op |-> "create",
                                     params |-> create_params(args[c].folder_name,
                                                              args[c].drive_id),
                                     resp |-> Pending] >>]
                  /\ pc' = [pc EXCEPT ![c] = "create"]
                  /\ UNCHANGED ret

\* the service answers the list call and the invocation goes on
ListOk(c) ==
    /\ \A d \in Callers : ~Ended(d)
    /\ pc[c] = "list"
    /\ \E resp \in ListResponses(LastCall(c).params) : AfterList(c, resp)
    /\ UNCHANGED <<files, files0, args, started, pureVars>>

\* the list call fails
ListFail(c, e) ==
    /\ \A d \in Callers : ~Ended(d)
    /\ pc[c] = "list"
    /\ AfterList(c, [status |-> "error", kind |-> e])
    /\ UNCHANGED <<files, files0, args, started, pureVars>>

\* the folder the service makes for a create call
NewFolder(params) ==
    [id |-> FolderId(Len(files) + 1), name |-> params.body.name,
     mimeType |-> params.body.mimeType, parents |-> params.body.parents]

\* after the second await: return the id of the create response; a failure of
\* the create call goes to the except clause
AfterCreate(c, resp) ==
    /\ calls' = Respond(c, resp)
    /\ IF resp.status = "error"
       THEN Except(c, resp.kind)
       ELSE Return(c, new_folder_id(resp.value))

\* the service creates the folder, answers with the fields id, name, and the
\* invocation goes on
CreateOk(c) ==
    /\ \A d \in Callers : ~Ended(d)
    /\ pc[c] = "create"
    /\ LET new == NewFolder(LastCall(c).params)
       IN  /\ files' = Append(files, new)
           /\ AfterCreate(c, [status |-> "ok",
                              value |-> [id |-> new.id, name |-> new.name]])
    /\ UNCHANGED <<files0, args, started, pureVars>>

\* the create call fails, before or after the service has made the folder
CreateFail(c, e, made) ==
    /\ \A d \in Callers : ~Ended(d)
    /\ pc[c] = "create"
    /\ files' = IF made THEN Append(files, NewFolder(LastCall(c).params)) ELSE files
    /\ AfterCreate(c, [status |-> "error", kind |-> e])
    /\ UNCHANGED <<files0, args, started, pureVars>>

\* the frame of an ended invocation goes away, before anything else runs
Release(c) ==
    /\ Ended(c)
    /\ pc' = [pc EXCEPT ![c] = "idle"]
    /\ args' = [args EXCEPT ![c] = NoArgs]
    /\ calls' = [calls EXCEPT ![c] = <<>>]
    /\ ret' = [ret EXCEPT ![c] = None]
    /\ UNCHANGED <<files, files0, started, pureVars>>

Next ==
    \/ \E c \in Callers, n \in FolderNames, d \in DriveIds, i \in BOOLEAN :
          Invoke(c, n, d, i) /\ UNCHANGED histVars
    \/ \E c \in Callers : ListOk(c) /\ UNCHANGED histVars
    \/ \E c \in Callers, e \in ErrorKinds : ListFail(c, e) /\ UNCHANGED histVars
    \/ \E c \in Callers : CreateOk(c) /\ UNCHANGED histVars
    \/ \E c \in Callers, e \in ErrorKinds, m \in BOOLEAN :
          CreateFail(c, e, m) /\ UNCHANGED histVars
    \/ \E c \in Callers : Release(c) /\ UNCHANGED histVars

Spec == Init /\ [][Next]_vars

(* ------------- invocations for one folder name and one scope ----------- *)

\* the invocation of c begins in this step
Begins(c) == pc[c] = "idle" /\ pc'[c] = "list"

\* the invocation of c ends in this step
Ends(c) == ~Ended(c) /\ pc'[c] \in {"returned", "raised"}

\* what the history keeps of an ended invocation: how its list call and its
\* create call went, and what it returned
Summary(cs, value, outcome, over) ==
    [list |-> IF cs[1].resp.status = "error" THEN "error"
              ELSE IF cs[1].resp.value.files = <<>> THEN "empty" ELSE "found",
     create |-> IF Len(cs) < 2 THEN "none" ELSE cs[2].resp.status,
     ret |-> value,
     outcome |-> outcome,
     overlapped |-> over]

\* the history of the step just taken: which invocations overlap, and the
\* invocation that ended
History ==
    /\ target' = target
    /\ overlapped' =
          [d \in Callers |->
              IF Begins(d) THEN \E o \in Callers \ {d} : Active(o)
              ELSE IF pc'[d] = "idle" THEN FALSE
              ELSE overlapped[d] \/ (Active(d) /\ \E o \in Callers \ {d} : Begins(o))]
    /\ hist' =
          IF \E c \in Callers : Ends(c)
          THEN LET c == CHOOSE x \in Callers : Ends(x)
               IN  Append(hist, Summary(calls'[c], ret'[c], pc'[c], overlapped[c]))
          ELSE hist

SameInit ==
    /\ InitDrive
    /\ InitPure
    /\ target \in [folder_name : FolderNames, drive_id : DriveIds]

SameNext ==
    \/ \E c \in Callers, i \in BOOLEAN :
          Invoke(c, target.folder_name, target.drive_id, i) /\ History
    \/ \E c \in Callers : ListOk(c) /\ History
    \/ \E c \in Callers, e \in ErrorKinds : ListFail(c, e) /\ History
    \/ \E c \in Callers : CreateOk(c) /\ History
    \/ \E c \in Callers, e \in ErrorKinds, m \in BOOLEAN :
          CreateFail(c, e, m) /\ History
    \/ \E c \in Callers : Release(c) /\ History

\* every invocation asks for the same folder name in the same scope
SameSpec == SameInit /\ [][SameNext]_vars

(* ------------------- the pure functions on their own ------------------- *)

Chars == {"a", "'", "\\"}

EmptyDict == [k \in {} |-> None]

\* permission objects, with and without their type and role
Permissions ==
    LET types == {"anyone", "user"}
        roles == {"reader", "writer", "commenter", "owner"}
    IN  {[type |-> t, role |-> r] : t \in types, r \in roles}
          \cup {[type |-> t] : t \in types}
          \cup {[role |-> r] : r \in roles}
          \cup {EmptyDict}

\* the query of find_or_create_folder for one folder name
ApplyQuery(folder_name) ==
    /\ fn' = "query"
    /\ arg' = folder_name
    /\ out' = query(folder_name)
    /\ UNCHANGED <<files, files0, pc, args, calls, ret, started, histVars>>

\* check_public_link_permission for one list of permissions
ApplyCheck(permissions) ==
    /\ fn' = "check_public_link_permission"
    /\ arg' = permissions
    /\ out' = check_public_link_permission(permissions)
    /\ UNCHANGED <<files, files0, pc, args, calls, ret, started, histVars>>

PureInit ==
    /\ InitPure
    /\ files = <<>>
    /\ files0 = <<>>
    /\ pc = [c \in Callers |-> "idle"]
    /\ args = [c \in Callers |-> NoArgs]
    /\ calls = [c \in Callers |-> <<>>]
    /\ ret = [c \in Callers |-> None]
    /\ started = 0
    /\ overlapped = [c \in Callers |-> FALSE]
    /\ hist = <<>>
    /\ target = NoTarget

PureNext ==
    \/ \E folder_name \in SeqsUpTo(Chars, MaxLen) : ApplyQuery(folder_name)
    \/ \E permissions \in SeqsUpTo(Permissions, MaxPerms) : ApplyCheck(permissions)

PureSpec == PureInit /\ [][PureNext]_vars

(* ------------------------------ properties ----------------------------- *)

ListCall(c) == calls[c][1]

ListSucceeded(c) == ListCall(c).resp.status = "ok"

ListedFolders(c) == ListCall(c).resp.value.files

Ops(c) == [i \in 1..Len(calls[c]) |-> calls[c][i].op]

\* C1: an invocation whose list call succeeds with an empty result and whose
\* create call succeeds has issued exactly one list call and then exactly one
\* create call, and returns the id of the create response.
C1_CreateWhenAbsent ==
    \A c \in Callers :
        (/\ Ended(c)
         /\ ListSucceeded(c)
         /\ ListedFolders(c) = <<>>
         /\ \A i \in 2..Len(calls[c]) : calls[c][i].resp.status = "ok")
        => /\ Ops(c) = <<"list", "create">>
           /\ pc[c] = "returned"
           /\ ret[c] = calls[c][2].resp.value.id

C1_Witness ==
    \E c \in Callers :
        /\ pc[c] = "returned"
        /\ ListSucceeded(c)
        /\ ListedFolders(c) = <<>>
        /\ Len(calls[c]) = 2
        /\ calls[c][2].resp.status = "ok"

\* C2: an invocation whose list call succeeds with a non-empty result has issued
\* exactly one list call and no create call, and returns the id of the first
\* record of the result, however many records there are.
C2_ReturnFirstMatch ==
    \A c \in Callers :
        (Ended(c) /\ ListSucceeded(c) /\ ListedFolders(c) # <<>>)
        => /\ Ops(c) = <<"list">>
           /\ pc[c] = "returned"
           /\ ret[c] = ListedFolders(c)[1].id

\* several folders match, and the service did not list the oldest first
C2_Witness ==
    \E c \in Callers :
        /\ pc[c] = "returned"
        /\ ListSucceeded(c)
        /\ Len(ListedFolders(c)) >= 2
        /\ ListedFolders(c)[1].id # FolderId(1)
        /\ ListedFolders(c)[1].id # ListedFolders(c)[Len(ListedFolders(c))].id

\* C3: when the list call or the create call fails, the invocation returns None;
\* no invocation ever ends by raising.
C3_FailureReturnsNone ==
    \A c \in Callers :
        /\ pc[c] # "raised"
        /\ (Ended(c) /\ \E i \in 1..Len(calls[c]) : calls[c][i].resp.status = "error")
           => (pc[c] = "returned" /\ ret[c] = None)

\* the create call failed with a network error
C3_Witness ==
    \E c \in Callers :
        /\ pc[c] = "returned"
        /\ Len(calls[c]) = 2
        /\ calls[c][2].resp = [status |-> "error", kind |-> "network"]
        /\ ret[c] = None

\* C4: an invocation issues the list call exactly once and the create call at
\* most once, the create call only after the list call has succeeded with an
\* empty result; after a failure no further call is issued.
C4_ProbeThenCreate ==
    \A c \in Callers :
        pc[c] # "idle"
        => /\ Ops(c) \in {<<"list">>, <<"list", "create">>}
           /\ Len(calls[c]) = 2 => (ListSucceeded(c) /\ ListedFolders(c) = <<>>)
           /\ (pc[c] = "list") = (ListCall(c).resp = Pending)
           /\ (pc[c] = "create") = (Len(calls[c]) = 2 /\ calls[c][2].resp = Pending)

\* the list call failed, and that was the only call
C4_Witness ==
    \E c \in Callers :
        /\ Ended(c)
        /\ ListCall(c).resp.status = "error"
        /\ Ops(c) = <<"list">>

\* C5: with a non-empty drive_id the list call carries driveId = drive_id,
\* corpora = "drive" and supportsAllDrives, and the create call has
\* parents = [drive_id] and supportsAllDrives; with drive_id absent the list call
\* carries neither driveId nor corpora and the create call has parents = ['root'].
C5_ScopeCarried ==
    \A c \in Callers : \A i \in 1..Len(calls[c]) :
        LET drive_id == args[c].drive_id
            params == calls[c][i].params
        IN  /\ (drive_id # None /\ drive_id # "" /\ calls[c][i].op = "list")
               => /\ {"driveId", "corpora"} \subseteq DOMAIN params
                  /\ params.driveId = drive_id
                  /\ params.corpora = "drive"
                  /\ params.supportsAllDrives
            /\ (drive_id # None /\ drive_id # "" /\ calls[c][i].op = "create")
               => /\ params.body.parents = <<drive_id>>
                  /\ params.supportsAllDrives
            /\ (drive_id = None /\ calls[c][i].op = "list")
               => DOMAIN params \cap {"driveId", "corpora"} = {}
            /\ (drive_id = None /\ calls[c][i].op = "create")
               => params.body.parents = <<"root">>

\* a create call in a shared drive, after its list call
C5_Witness ==
    \E c \in Callers :
        /\ args[c].drive_id = "drvA"
        /\ Ops(c) = <<"list", "create">>

\* C6: an id that an invocation returns is the id of a folder of the Drive at
\* the moment of return, whatever the invocations before it and beside it.
C6_ReturnedFolderExists ==
    \A c \in Callers :
        (pc[c] = "returned" /\ ret[c] # None)
        => \E k \in 1..Len(files) :
              files[k].id = ret[c] /\ files[k].mimeType = FolderMimeType

\* an id is returned while another invocation is under way
C6_Witness ==
    \E c, d \in Callers :
        /\ pc[c] = "returned"
        /\ ret[c] # None
        /\ pc[d] = "create"
        /\ started = MaxCalls

\* the folders of the Drive with this name under this parent
FoldersNamed(name, parent) ==
    {k \in 1..Len(files) : files[k].name = name /\ files[k].parents = <<parent>>}

TargetParent == IF target.drive_id \in {None, ""} THEN "root" ELSE target.drive_id

\* C7: invocations for the same folder name and scope are not de-duplicated: two
\* of them that both got an empty list result and both created have overlapped,
\* have returned different ids, and have each left a folder of that name.
C7_DuplicatesUnderRace ==
    \A i, j \in 1..Len(hist) :
        (/\ i < j
         /\ hist[i].list = "empty" /\ hist[i].create = "ok"
         /\ hist[j].list = "empty" /\ hist[j].create = "ok")
        => /\ hist[i].overlapped /\ hist[j].overlapped
           /\ hist[i].ret # None /\ hist[j].ret # None
           /\ hist[i].ret # hist[j].ret
           /\ \A r \in {hist[i].ret, hist[j].ret} :
                 \E k \in FoldersNamed(target.folder_name, TargetParent) :
                     files[k].id = r

\* two callers have both seen "not found", both have created, and the Drive
\* holds two folders of the name
C7_Witness ==
    /\ Len(hist) = 2
    /\ \A i \in 1..2 : hist[i].list = "empty" /\ hist[i].create = "ok"
    /\ hist[1].ret # hist[2].ret
    /\ files0 = <<>>
    /\ Cardinality(FoldersNamed(target.folder_name, TargetParent)) = 2
    /\ \A c \in Callers : pc[c] = "idle"

\* an invocation that did not overlap another one and whose calls all succeeded
Clean(h) ==
    /\ ~h.overlapped
    /\ h.list # "error"
    /\ h.create # "error"
    /\ h.outcome = "returned"

\* the invocations so far were one after the other and none failed, and the Drive
\* had no folder of the name at the start
Sequential ==
    /\ \A k \in 1..Len(files0) : files0[k].name # target.folder_name
    /\ \A i \in 1..Len(hist) : Clean(hist[i])

Quotes(name, i) == Cardinality({j \in 1..i : name[j] = "'"})

\* C9: the query is "name = '<E>' and mimeType = 'application/vnd.google-apps.folder'
\* and trashed = false", where <E> is the folder name with a backslash put before
\* every single quote and nothing else changed.
C9_QueryEscapesQuotes ==
    fn = "query"
    => LET name == arg
           at(i) == Len(QueryPrefix) + i + Quotes(name, i)
       IN  /\ Len(out) = Len(QueryPrefix) + Len(name) + Quotes(name, Len(name))
                           + Len(QuerySuffix)
           /\ SubSeq(out, 1, Len(QueryPrefix)) = QueryPrefix
           /\ SubSeq(out, Len(out) - Len(QuerySuffix) + 1, Len(out)) = QuerySuffix
           /\ \A i \in 1..Len(name) :
                 /\ out[at(i)] = name[i]
                 /\ name[i] = "'" => out[at(i) - 1] = "\\"

\* a name with a quote, a backslash and a plain character
C9_Witness ==
    /\ fn = "query"
    /\ \A ch \in Chars : \E i \in 1..Len(arg) : arg[i] = ch

\* C10: check_public_link_permission is true exactly when some permission has
\* type "anyone" and a role among reader, writer, commenter; it is false for the
\* empty list and for permissions without type or without role.
C10_PublicLinkIff ==
    fn = "check_public_link_permission"
    => /\ out = (\E i \in 1..Len(arg) :
                    /\ {"type", "role"} \subseteq DOMAIN arg[i]
                    /\ arg[i].type = "anyone"
                    /\ arg[i].role \in {"reader", "writer", "commenter"})
       /\ arg = <<>> => out = FALSE
       /\ (\A i \in 1..Len(arg) : ~({"type", "role"} \subseteq DOMAIN arg[i]))
          => out = FALSE

\* a permission without role, then a commenter link
C10_Witness ==
    /\ fn = "check_public_link_permission"
    /\ arg = <<[type |-> "anyone"], [type |-> "anyone", role |-> "commenter"]>>
    /\ out = TRUE

====
